---- MODULE Spec2Model ----
(***************************************************************************)
(* Model of the CEPAccount session of the Circular Enterprise APIs for Go  *)
(* (src/pkg/account.go, the draft whose Nonce is an int64) and of the      *)
(* helpers it calls (src/internal/utils/utils.go,                          *)
(* src/pkg/circular_enterprise_apis.go).                                   *)
(*                                                                         *)
(* A Go string is a sequence of tokens.  A token is one character, or a    *)
(* fixed run of characters the program never looks into (a URL, a time     *)
(* stamp, a digest).  The empty string is << >>.                           *)
(***************************************************************************)
EXTENDS Integers, Sequences, FiniteSets, TLC

\* fields of CEPAccount
VARIABLES Address, PublicKey, NAGURL, NetworkNode, Blockchain, LatestTxID,
          Nonce, IntervalSec

\* the call made last: its name, the error it returned (Empty for nil), the
\* requests it sent and the answer it got; opParity flips at every call
VARIABLES lastOp, opParity

\* r + 1 of the last successful UpdateAccount (Absent before the first one),
\* the number of submissions accepted since, and whether Close ran since
VARIABLES base, accepted, closedSince

\* GetTransactionOutcome while it runs: where it is (pc), the seconds since
\* the call (now), its timeoutSec and intervalSec, whether ticker.C holds a
\* tick, what it has seen so far (polls), the response it returned, and
\* whether its caller has decided since the call that it should stop
VARIABLES pc, now, timeout, period, tickReady, polls, outcome, cancelRequested

\* the Data field of a CCertificate, the argument of the SetData that set it
\* (Unset when it was set otherwise) and what the last GetData returned
VARIABLES Data, plain, got

\* the last call of signData: its message, its key and what it returned
VARIABLES signed

\* the (Address, Blockchain) pair under which Nonce was last fetched or
\* advanced (NoScope while it is the zero of a new or closed session); it is
\* followed only in behaviours that start in ScopeInit
VARIABLES nonceOf

\* the calls of callers that do not wait for one another: for each caller
\* the operation, how far it has got, and what it holds in its locals
VARIABLES inFlight

account == <<Address, PublicKey, NAGURL, NetworkNode, Blockchain, LatestTxID,
             Nonce, IntervalSec>>

history == <<lastOp, opParity, base, accepted, closedSince>>

poller == <<pc, now, timeout, period, tickReady, polls, outcome,
            cancelRequested>>

certificate == <<Data, plain, got>>

vars == <<account, history, poller, certificate, signed, nonceOf, inFlight>>

\* ------------------------------------------------------------------------
\* Bounds of the model
\* ------------------------------------------------------------------------
\* largest nonce the gateway reports in a wallet-nonce answer
MaxReported == 1
\* submissions are no longer attempted once Nonce has reached this value
MaxNonce == 3
\* largest timeoutSec passed to GetTransactionOutcome
MaxTimeout == 3
\* largest intervalSec passed to GetTransactionOutcome
MaxInterval == 2
\* largest number of bytes passed to SetData
MaxData == 2
\* seconds the poller's clock runs past the largest deadline
ClockSlack == 1

\* ------------------------------------------------------------------------
\* Strings and constants of the package
\* ------------------------------------------------------------------------
Empty == << >>

LibVersion == <<"1.0.13">>

NetworkURL == <<"https://circularlabs.io/network/getNAG?network=">>

DefaultChain == <<"0", "x", "8a20baa40c45dc5055aeb26197c203e576ef389d9acb171bd62da11dc5ad72b2">>

DefaultNAG == <<"https://nag.circularlabs.io/NAG.php?cep=">>

DefaultIntervalSec == 2

HTTPStatusOK == 200

\* stands for a JSON member that is missing or has another type than the
\* one the code asserts
Absent == -1

\* stands for a JSON member whose type is not the one the decoder expects
WrongType == -2

\* ------------------------------------------------------------------------
\* internal/utils
\* ------------------------------------------------------------------------
HexFix(word) ==
    IF Len(word) >= 2 /\ word[1] = "0" /\ word[2] \in {"x", "X"}
    THEN SubSeq(word, 3, Len(word))
    ELSE word

\* hex.EncodeToString of the bytes of one token; NUL is the zero byte, C3 and
\* A9 are the two bytes of the letter e with an acute accent
HexOfToken(c) ==
    CASE c = "d" -> <<"6", "4">>
      [] c = "4" -> <<"3", "4">>
      [] c = "6" -> <<"3", "6">>
      [] c = "{\"Action\":\"CP_CERTIFICATE\",\"Data\":\""
           -> <<"7b22416374696f6e223a2243505f4345525449464943415445222c2244617461223a22">>
      [] c = "\"}" -> <<"227d">>
      [] c = "0" -> <<"3", "0">>
      [] c = "x" -> <<"7", "8">>
      [] c = "m" -> <<"6", "d">>
      [] c = "NUL" -> <<"0", "0">>
      [] c = "C3" -> <<"c", "3">>
      [] c = "A9" -> <<"a", "9">>

RECURSIVE StringToHex(_)
StringToHex(str) ==
    IF str = Empty THEN Empty
    ELSE HexOfToken(Head(str)) \o StringToHex(Tail(str))

\* fmt.Sprintf("%d", n)
Digit(d) == <<"0", "1", "2", "3", "4", "5", "6", "7", "8", "9">>[d + 1]

RECURSIVE DecimalNat(_)
DecimalNat(n) ==
    IF n < 10 THEN <<Digit(n)>> ELSE DecimalNat(n \div 10) \o <<Digit(n % 10)>>

Sprintf_d(n) == IF n < 0 THEN <<"-">> \o DecimalNat(0 - n) ELSE DecimalNat(n)

\* values utils.GetFormattedTimestamp can return during a run
Timestamps == {<<"2025:01:01-00:00:00">>}

\* ------------------------------------------------------------------------
\* crypto
\* ------------------------------------------------------------------------
\* hex.EncodeToString(sha256.Sum256([]byte(s))): one digest token per input
Sha256Hex(s) == <<"sha256(" \o ToString(s) \o ")">>

HexDigits == {"0", "1", "2", "3", "4", "5", "6", "7", "8", "9",
              "a", "b", "c", "d", "e", "f", "A", "B", "C", "D", "E", "F"}

\* hex.DecodeString succeeds
IsHexString(s) == Len(s) % 2 = 0 /\ \A i \in 1..Len(s) : s[i] \in HexDigits

\* the bytes hex.DecodeString yields, written as lower-case hex digits
LowerHexDigit(c) ==
    CASE c = "A" -> "a" [] c = "B" -> "b" [] c = "C" -> "c"
      [] c = "D" -> "d" [] c = "E" -> "e" [] c = "F" -> "f" [] OTHER -> c

DecodeHex(s) == [i \in 1..Len(s) |-> LowerHexDigit(s[i])]

\* EcdsaSignHex, had the message been signed as it is, without the digest
EcdsaSignHex_NoDigest(keyBytes, message) ==
    <<"ecdsa(" \o ToString(keyBytes) \o "," \o ToString(message) \o ")">>

\* the single bytes HexOfToken knows
KnownBytes == {"d", "4", "6", "0", "x", "m", "NUL", "C3", "A9"}

\* the byte that two hex digits stand for
ByteOfHex(high, low) ==
    LET pair == <<LowerHexDigit(high), LowerHexDigit(low)>>
    IN  IF \E b \in KnownBytes : HexOfToken(b) = pair
        THEN CHOOSE b \in KnownBytes : HexOfToken(b) = pair
        ELSE "byte " \o pair[1] \o pair[2]

\* string(bytes) of what hex.DecodeString yields
RECURSIVE BytesOfHex(_)
BytesOfHex(digits) ==
    IF Len(digits) < 2 THEN Empty
    ELSE <<ByteOfHex(digits[1], digits[2])>> \o BytesOfHex(SubSeq(digits, 3, Len(digits)))

\* strings.ReplaceAll(s, "\x00", "")
StripNul(str) == SelectSeq(str, LAMBDA b : b # "NUL")

\* HexToString, had it decoded the digits in front of the first bad one
HexToString_Truncates(hexStr) ==
    LET cleanedHex == HexFix(hexStr)
        good == CHOOSE n \in 0..Len(cleanedHex) :
                    /\ \A i \in 1..n : cleanedHex[i] \in HexDigits
                    /\ n = Len(cleanedHex) \/ cleanedHex[n + 1] \notin HexDigits
    IN  [text |-> StripNul(BytesOfHex(SubSeq(cleanedHex, 1, good))), err |-> Empty]

HexToString(hexStr) ==
    LET cleanedHex == HexFix(hexStr)
    IN  IF ~IsHexString(cleanedHex)
        THEN [text |-> Empty, err |-> <<"invalid hex string">>]
        ELSE [text |-> StripNul(BytesOfHex(cleanedHex)), err |-> Empty]

\* ecdsa.Sign(secp256k1.PrivKeyFromBytes(key), sha256(message)), serialized
\* and hex encoded (RFC 6979: a function of the key bytes and the digest)
EcdsaSignHex(keyBytes, message) ==
    <<"ecdsa(" \o ToString(keyBytes) \o "," \o Sha256Hex(message)[1] \o ")">>

\* ------------------------------------------------------------------------
\* The gateway as the session sees it
\* ------------------------------------------------------------------------
NoMember == <<"<no such member>">>

\* the value of the "Response" member of a gateway body
NoResponse ==
    [type |-> "none", text |-> Empty, Status |-> NoMember, TxID |-> NoMember,
     Nonce |-> Absent, Value |-> Absent]

StringResponse(t) == [NoResponse EXCEPT !.type = "string", !.text = t]

NonceResponse(n) == [NoResponse EXCEPT !.type = "object", !.Nonce = n]

TxResponse(id) == [NoResponse EXCEPT !.type = "object", !.TxID = id]

StatusResponse(s, v) ==
    [NoResponse EXCEPT !.type = "object", !.Status = s, !.Value = v]

\* what an http.Post can come back with
TransportError ==
    [kind |-> "transport", status |-> 0, json |-> FALSE, text |-> Empty,
     Result |-> Absent, Response |-> NoResponse]

\* no request was made
NoAnswer == [TransportError EXCEPT !.kind = "none"]

BodyReadError == [TransportError EXCEPT !.kind = "readerr", !.status = 200]

\* a body that is not JSON
PlainAnswer(status, text) ==
    [TransportError EXCEPT !.kind = "http", !.status = status, !.text = text]

JSONAnswer(result, response) ==
    [TransportError EXCEPT !.kind = "http", !.status = 200, !.json = TRUE,
                           !.Result = result, !.Response = response]

\* http.Post reaches a server only through an absolute http(s) URL
ResolvedNAG == <<"https://testnet.nag.example/NAG.php?cep=">>

HasScheme(url) == url \in {DefaultNAG, ResolvedNAG}

\* Posted, had a request been sent a second time
Posted_Retried(url, request) ==
    IF HasScheme(url) THEN <<request, request>> ELSE << >>

\* the requests one http.Post puts on the wire
Posted(url, request) == IF HasScheme(url) THEN <<request>> ELSE << >>

AnswersFor(url, answers) == IF HasScheme(url) THEN answers ELSE {TransportError}

NonceAnswers ==
    {TransportError, PlainAnswer(500, <<"Internal Server Error">>),
     PlainAnswer(200, <<"invalid json">>)}
    \cup {JSONAnswer(200, NonceResponse(r)) : r \in 0..MaxReported}
    \cup {JSONAnswer(400, NonceResponse(0)), JSONAnswer(200, NonceResponse(WrongType)),
          JSONAnswer(200, NoResponse)}

SubmitAnswers ==
    {TransportError, BodyReadError, PlainAnswer(500, <<"Internal Server Error">>),
     PlainAnswer(200, <<"invalid json">>)}
    \cup {JSONAnswer(200, TxResponse(<<"0x12345">>)),
          JSONAnswer(400, StringResponse(<<"Invalid Signature">>)),
          JSONAnswer(Absent, TxResponse(<<"0x12345">>))}

\* ------------------------------------------------------------------------
\* CEPAccount
\* ------------------------------------------------------------------------
NoError == Empty

\* arg is the address of an Open, the block of a GetTransaction or the key
\* of a SubmitCertificate or signData, and repeated tells of a Close that the
\* call before it was a Close too, of a signData that the signData before it
\* had the same message and key, and of a SubmitCertificate that has sent an
\* envelope that the call before it was a SubmitCertificate with the same key
\* that has sent one too
Call(op, err, sent, answer) ==
    [op |-> op, arg |-> Empty, repeated |-> FALSE, err |-> err, sent |-> sent,
     answer |-> answer]

NotFollowed == <<"(not followed)">>

NoScope == <<"(no gateway value)">>

\* nonceOf after a call of the session in state (address, chain): Close
\* zeroes Nonce, a successful UpdateAccount fetches it and an accepted
\* SubmitCertificate advances it
ScopeAfter(call, address, chain) ==
    CASE nonceOf = NotFollowed -> NotFollowed
      [] call.op = "Close" -> NoScope
      [] call.op \in {"UpdateAccount", "SubmitCertificate"} /\ call.err = Empty ->
             <<address, chain>>
      [] OTHER -> nonceOf

\* a call of a session operation other than GetTransactionOutcome returns
ReturnedFrom(call) ==
    /\ pc = "idle"
    /\ lastOp' = call
    /\ opParity' = 1 - opParity
    /\ nonceOf' = ScopeAfter(call, Address, Blockchain)
    /\ UNCHANGED <<poller, certificate, signed, inFlight>>

Returned(op, err, sent, answer) == ReturnedFrom(Call(op, err, sent, answer))

\* what GetTransactionOutcome returned: its error and its response
Outcome(err, response) == [err |-> err, response |-> response]

NotReturned == Outcome(<<"(has not returned)">>, NoResponse)

\* the queries of one GetTransactionOutcome: how many were sent, the second
\* at which the last one was sent, the answer to the last one
NoPolls ==
    [n |-> 0, at |-> 0, last |-> NoAnswer, allPending |-> TRUE, allFailed |-> TRUE]

\* stands for the argument of a SetData that did not happen
Unset == <<"(not set by SetData)">>

\* what GetData or signData returned: a string and an error
Result(text, err) == [text |-> text, err |-> err]

NoSignature == [message |-> Empty, key |-> Empty, result |-> Result(Empty, NoError)]

Callers == {1, 2}

\* a caller that has no call in flight
NotCalled ==
    [op |-> "none", pc |-> "idle", key |-> Empty, id |-> Empty, signature |-> Empty,
     sent |-> << >>, answer |-> NoAnswer, err |-> Empty, value |-> 0]

\* NewCEPAccount() and NewCCertificate()
NewSession ==
    /\ Address = Empty
    /\ PublicKey = Empty
    /\ NAGURL = DefaultNAG
    /\ NetworkNode = Empty
    /\ Blockchain = DefaultChain
    /\ LatestTxID = Empty
    /\ Nonce = 0
    /\ IntervalSec = DefaultIntervalSec
    /\ lastOp = Call("NewCEPAccount", NoError, << >>, NoAnswer)
    /\ opParity = 0
    /\ base = Absent
    /\ accepted = 0
    /\ closedSince = FALSE
    /\ pc = "idle"
    /\ now = 0
    /\ timeout = 0
    /\ period = 0
    /\ tickReady = FALSE
    /\ polls = NoPolls
    /\ outcome = NotReturned
    /\ cancelRequested = FALSE
    /\ Data = Empty
    /\ plain = Unset
    /\ got = Result(Empty, NoError)
    /\ signed = NoSignature
    /\ inFlight = [c \in Callers |-> NotCalled]

Init == NewSession /\ nonceOf = NotFollowed

\* the same, with nonceOf followed
ScopeInit == NewSession /\ nonceOf = NoScope

Addresses == {Empty, <<"0", "x", "a", "1">>, <<"b", "2">>}

\* Open, had it kept the address of an account that is open already
Open_KeepsFirst(address) ==
    /\ IF address = Empty
       THEN /\ ReturnedFrom([Call("Open", <<"invalid address format">>, << >>,
                                  NoAnswer) EXCEPT !.arg = address])
            /\ UNCHANGED Address
       ELSE /\ Address' = IF Address = Empty THEN address ELSE Address
            /\ ReturnedFrom([Call("Open", NoError, << >>, NoAnswer)
                                EXCEPT !.arg = address])
    /\ UNCHANGED <<PublicKey, NAGURL, NetworkNode, Blockchain, LatestTxID, Nonce,
                   IntervalSec, base, accepted, closedSince>>

Open(address) ==
    /\ IF address = Empty
       THEN /\ ReturnedFrom([Call("Open", <<"invalid address format">>, << >>,
                                  NoAnswer) EXCEPT !.arg = address])
            /\ UNCHANGED Address
       ELSE /\ Address' = address
            /\ ReturnedFrom([Call("Open", NoError, << >>, NoAnswer)
                                EXCEPT !.arg = address])
    /\ UNCHANGED <<PublicKey, NAGURL, NetworkNode, Blockchain, LatestTxID, Nonce,
                   IntervalSec, base, accepted, closedSince>>

\* Close, had it refused a session that is not open
Close_RequiresOpen ==
    /\ IF Address = Empty
       THEN /\ ReturnedFrom([Call("Close", <<"account is not open">>, << >>,
                                  NoAnswer) EXCEPT !.repeated = lastOp.op = "Close"])
            /\ UNCHANGED account
       ELSE /\ Address' = Empty
            /\ PublicKey' = Empty
            /\ NAGURL' = Empty
            /\ NetworkNode' = Empty
            /\ Blockchain' = Empty
            /\ LatestTxID' = Empty
            /\ Nonce' = 0
            /\ IntervalSec' = 0
            /\ ReturnedFrom([Call("Close", NoError, << >>, NoAnswer)
                                EXCEPT !.repeated = lastOp.op = "Close"])
    /\ closedSince' = TRUE
    /\ UNCHANGED <<base, accepted>>

Close ==
    /\ Address' = Empty
    /\ PublicKey' = Empty
    /\ NAGURL' = Empty
    /\ NetworkNode' = Empty
    /\ Blockchain' = Empty
    /\ LatestTxID' = Empty
    /\ Nonce' = 0
    /\ IntervalSec' = 0
    /\ ReturnedFrom([Call("Close", NoError, << >>, NoAnswer)
                        EXCEPT !.repeated = lastOp.op = "Close"])
    /\ closedSince' = TRUE
    /\ UNCHANGED <<base, accepted>>

Chains == {DefaultChain, <<"c", "1">>}

\* SetBlockchain, had it started the nonce of the new chain at zero
SetBlockchain_ResetsNonce(chain) ==
    /\ Blockchain' = chain
    /\ Nonce' = IF chain = Blockchain THEN Nonce ELSE 0
    /\ Returned("SetBlockchain", NoError, << >>, NoAnswer)
    /\ UNCHANGED <<Address, PublicKey, NAGURL, NetworkNode, LatestTxID,
                   IntervalSec, base, accepted, closedSince>>

SetBlockchain(chain) ==
    /\ Blockchain' = chain
    /\ Returned("SetBlockchain", NoError, << >>, NoAnswer)
    /\ UNCHANGED <<Address, PublicKey, NAGURL, NetworkNode, LatestTxID, Nonce,
                   IntervalSec, base, accepted, closedSince>>

\* ---- SetNetwork --------------------------------------------------------
Networks == {<<"testnet">>}

\* the body {"status":"success", "url":"<url>"} of the discovery endpoint
DiscoveryBody(url) == <<"{\"status\":\"success\",\"url\":\"">> \o url \o <<"\"}">>

DiscoveryAnswers ==
    {TransportError, BodyReadError, PlainAnswer(200, ResolvedNAG),
     PlainAnswer(200, DiscoveryBody(ResolvedNAG)),
     PlainAnswer(404, <<"Not Found">>),
     PlainAnswer(200, <<"{\"status\":\"error\",\"message\":\"Network not found\"}">>)}

GetNAG(network, answer) ==
    CASE answer.kind = "transport" -> [url |-> Empty, err |-> <<"http get failed">>]
      [] answer.kind = "readerr" -> [url |-> Empty, err |-> <<"body read failed">>]
      [] OTHER -> [url |-> answer.text, err |-> NoError]

SetNetwork(network, answer) ==
    LET nag == GetNAG(network, answer)
        get == <<[url |-> NetworkURL \o network]>>
    IN  /\ IF nag.err # NoError
           THEN /\ Returned("SetNetwork", <<"failed to get NAG URL: ">> \o nag.err,
                            get, answer)
                /\ UNCHANGED <<NAGURL, NetworkNode>>
           ELSE /\ NAGURL' = nag.url
                /\ NetworkNode' = network
                /\ Returned("SetNetwork", NoError, get, answer)
        /\ UNCHANGED <<Address, PublicKey, Blockchain, LatestTxID, Nonce,
                       IntervalSec, base, accepted, closedSince>>

\* ---- UpdateAccount -----------------------------------------------------
\* AccountNotOpen, had the check been left out
AccountNotOpen_Never(address) == FALSE

\* the check UpdateAccount, signData and SubmitCertificate start with
AccountNotOpen(address) == address = Empty

\* json.NewDecoder(resp.Body).Decode(&responseData) fails
NonceDecodeFails(answer) ==
    \/ ~answer.json
    \/ answer.Result = WrongType
    \/ answer.Response.type = "string"
    \/ answer.Response.Nonce = WrongType

\* responseData.Result and responseData.Response.Nonce after decoding: a
\* member the body lacks leaves the zero value
DecodedResult(answer) == IF answer.Result = Absent THEN 0 ELSE answer.Result

DecodedNonce(answer) ==
    IF answer.Response.Nonce = Absent THEN 0 ELSE answer.Response.Nonce

\* UpdateAccountError, had it not looked at Result
UpdateAccountError_IgnoresResult(answer) ==
    CASE answer.kind # "http" -> <<"http post request failed">>
      [] answer.status # HTTPStatusOK -> <<"network request failed with status">>
      [] NonceDecodeFails(answer) -> <<"failed to decode response body">>
      [] OTHER -> NoError

UpdateAccountError(answer) ==
    CASE answer.kind # "http" -> <<"http post request failed">>
      [] answer.status # HTTPStatusOK -> <<"network request failed with status">>
      [] NonceDecodeFails(answer) -> <<"failed to decode response body">>
      [] DecodedResult(answer) = 200 -> NoError
      [] OTHER -> <<"failed to update account: invalid response from server">>

\* UpdatedNonce, had it stored the reported nonce itself
UpdatedNonce_Reported(answer) == DecodedNonce(answer)

UpdatedNonce(answer) == DecodedNonce(answer) + 1

UpdateAccount(answer) ==
    LET request == [Blockchain |-> HexFix(Blockchain), Address |-> HexFix(Address),
                    Version |-> LibVersion,
                    url |-> NAGURL \o <<"Circular_GetWalletNonce_">> \o NetworkNode]
        err == UpdateAccountError(answer)
    IN  /\ IF AccountNotOpen(Address)
           THEN /\ Returned("UpdateAccount", <<"account is not open">>, << >>, NoAnswer)
                /\ UNCHANGED <<Nonce, base, accepted, closedSince>>
           ELSE /\ answer \in AnswersFor(NAGURL, NonceAnswers)
                /\ Returned("UpdateAccount", err, Posted(NAGURL, request), answer)
                /\ IF err = NoError
                   THEN /\ Nonce' = UpdatedNonce(answer)
                        /\ base' = DecodedNonce(answer) + 1
                        /\ accepted' = 0
                        /\ closedSince' = FALSE
                   ELSE UNCHANGED <<Nonce, base, accepted, closedSince>>
        /\ UNCHANGED <<Address, PublicKey, NAGURL, NetworkNode, Blockchain,
                       LatestTxID, IntervalSec>>

\* ---- signData ----------------------------------------------------------
Keys == {<<"0", "x", "1", "F">>, <<"z", "z">>}

\* signData, had the signature covered the session's address as well
signData_CoversAddress(address, message, privateKeyHex) ==
    IF AccountNotOpen(address)
    THEN [signature |-> Empty, err |-> <<"account is not open">>]
    ELSE IF ~IsHexString(HexFix(privateKeyHex))
    THEN [signature |-> Empty, err |-> <<"invalid private key hex string">>]
    ELSE [signature |-> EcdsaSignHex(DecodeHex(HexFix(privateKeyHex)),
                                     address \o message),
          err |-> NoError]

signData(address, message, privateKeyHex) ==
    IF AccountNotOpen(address)
    THEN [signature |-> Empty, err |-> <<"account is not open">>]
    ELSE IF ~IsHexString(HexFix(privateKeyHex))
    THEN [signature |-> Empty, err |-> <<"invalid private key hex string">>]
    ELSE [signature |-> EcdsaSignHex(DecodeHex(HexFix(privateKeyHex)), message),
          err |-> NoError]

\* ---- SubmitCertificate -------------------------------------------------
PData == {<<"d">>}

\* json.Marshal of {"Action": "CP_CERTIFICATE", "Data": data}
PayloadJSON(data) ==
    <<"{\"Action\":\"CP_CERTIFICATE\",\"Data\":\"">> \o data \o <<"\"}">>

Payload(pdata) == StringToHex(PayloadJSON(StringToHex(pdata)))

\* StrToHash, had the nonce been appended after the timestamp
StrToHash_NonceLast(chain, address, payload, nonce, timestamp) ==
    HexFix(chain) \o HexFix(address) \o HexFix(address) \o payload
        \o timestamp \o Sprintf_d(nonce)

\* StrToHash, had the nonce been left out
StrToHash_NoNonce(chain, address, payload, nonce, timestamp) ==
    HexFix(chain) \o HexFix(address) \o HexFix(address) \o payload \o timestamp

StrToHash(chain, address, payload, nonce, timestamp) ==
    HexFix(chain) \o HexFix(address) \o HexFix(address) \o payload
        \o Sprintf_d(nonce) \o timestamp

TransactionID(chain, address, payload, nonce, timestamp) ==
    Sha256Hex(StrToHash(chain, address, payload, nonce, timestamp))

RequestData(id, chain, address, payload, nonce, timestamp, signature) ==
    [ID |-> id, From |-> HexFix(address), To |-> HexFix(address),
     Timestamp |-> timestamp, Payload |-> payload, Nonce |-> Sprintf_d(nonce),
     Signature |-> signature, Blockchain |-> HexFix(chain),
     Type |-> <<"C_TYPE_CERTIFICATE">>, Version |-> LibVersion]

\* responseMap["Result"].(float64) is ok and equals 200
SubmitAccepted(answer) == answer.Result = 200

\* the error of the part of SubmitCertificate that follows http.Post
SubmitError(answer) ==
    CASE answer.kind = "transport" -> <<"failed to submit certificate">>
      [] answer.kind = "readerr" -> <<"failed to read response body">>
      [] answer.status # HTTPStatusOK -> <<"network returned an error - status: ">>
                                            \o Sprintf_d(answer.status) \o answer.text
      [] ~answer.json -> <<"failed to decode response JSON">>
      [] SubmitAccepted(answer) -> NoError
      [] answer.Response.type = "string" ->
             <<"certificate submission failed: ">> \o answer.Response.text
      [] OTHER -> <<"certificate submission failed with non-200 result code">>

\* SubmitEffect, had it saved the transaction id of the response body
SubmitEffect_ServerTxID(err, id, answer, latestTxID, nonce) ==
    IF err = NoError
    THEN [LatestTxID |-> answer.Response.TxID, Nonce |-> nonce + 1]
    ELSE [LatestTxID |-> latestTxID, Nonce |-> nonce]

\* SubmitEffect, had it counted the nonce up as soon as a body was decoded
SubmitEffect_CountsRejected(err, id, answer, latestTxID, nonce) ==
    IF err = NoError
    THEN [LatestTxID |-> id, Nonce |-> nonce + 1]
    ELSE [LatestTxID |-> latestTxID,
          Nonce |-> IF answer.json THEN nonce + 1 ELSE nonce]

\* SubmitEffect, had it taken the nonce back when the submission failed
SubmitEffect_TakesBack(err, id, answer, latestTxID, nonce) ==
    IF err = NoError
    THEN [LatestTxID |-> id, Nonce |-> nonce + 1]
    ELSE [LatestTxID |-> latestTxID, Nonce |-> nonce - 1]

\* SubmitEffect, had it forgotten the last transaction when a submission fails
SubmitEffect_ClearsOnFailure(err, id, answer, latestTxID, nonce) ==
    IF err = NoError
    THEN [LatestTxID |-> id, Nonce |-> nonce + 1]
    ELSE [LatestTxID |-> Empty, Nonce |-> nonce]

\* what the call leaves in LatestTxID and Nonce
SubmitEffect(err, id, answer, latestTxID, nonce) ==
    IF err = NoError
    THEN [LatestTxID |-> id, Nonce |-> nonce + 1]
    ELSE [LatestTxID |-> latestTxID, Nonce |-> nonce]

SubmitCertificate(pdata, privateKeyHex, timestamp, answer) ==
    LET payload == Payload(pdata)
        id == TransactionID(Blockchain, Address, payload, Nonce, timestamp)
        signature == signData(Address, id, privateKeyHex)
        requestData == RequestData(id, Blockchain, Address, payload, Nonce,
                                   timestamp, signature.signature)
        call(e, sent, reply) ==
            [Call("SubmitCertificate", e, sent, reply)
                EXCEPT !.arg = privateKeyHex,
                       !.repeated = /\ lastOp.op = "SubmitCertificate"
                                    /\ lastOp.arg = privateKeyHex
                                    /\ lastOp.sent # << >>
                                    /\ sent # << >>]
        request == [url |-> NAGURL \o <<"Circular_AddTransaction_">> \o NetworkNode,
                    body |-> requestData]
        err == SubmitError(answer)
        effect == SubmitEffect(err, id, answer, LatestTxID, Nonce)
    IN  /\ Nonce < MaxNonce
        /\ accepted < MaxNonce
        /\ IF AccountNotOpen(Address)
           THEN /\ ReturnedFrom(call(<<"account is not open">>, << >>, NoAnswer))
                /\ UNCHANGED <<LatestTxID, Nonce, accepted>>
           ELSE IF signature.err # NoError
           THEN /\ ReturnedFrom(call(<<"failed to sign data: ">> \o signature.err,
                                     << >>, NoAnswer))
                /\ UNCHANGED <<LatestTxID, Nonce, accepted>>
           ELSE /\ answer \in AnswersFor(NAGURL, SubmitAnswers)
                /\ ReturnedFrom(call(err, Posted(NAGURL, request), answer))
                /\ LatestTxID' = effect.LatestTxID
                /\ Nonce' = effect.Nonce
                /\ accepted' = IF err = NoError THEN accepted + 1 ELSE accepted
        /\ UNCHANGED <<Address, PublicKey, NAGURL, NetworkNode, Blockchain,
                       IntervalSec, base, closedSince>>

\* ---- getTransactionByID, GetTransactionOutcome -------------------------
PollAnswers ==
    {TransportError, PlainAnswer(500, <<"Internal Server Error">>),
     PlainAnswer(200, <<"invalid json">>),
     JSONAnswer(200, StatusResponse(<<"Pending">>, Absent)),
     JSONAnswer(200, StatusResponse(<<"Executed">>, 100)),
     JSONAnswer(200, StatusResponse(<<"Rejected">>, 200)),
     JSONAnswer(200, StringResponse(<<"Transaction Not Found">>)),
     JSONAnswer(200, StatusResponse(<<"Transaction Not Found">>, Absent)),
     JSONAnswer(200, StatusResponse(NoMember, 100)),
     JSONAnswer(400, StatusResponse(<<"Executed">>, 100))}

\* the error getTransactionByID returns once http.Post has come back
QueryError(answer) ==
    CASE answer.kind # "http" -> <<"http post request failed">>
      [] answer.status # HTTPStatusOK -> <<"network request failed with status">>
      [] ~answer.json -> <<"failed to decode transaction JSON">>
      [] OTHER -> NoError

\* ---- GetTransaction ------------------------------------------------------
\* NetworkNotSet, had the check been left out
NetworkNotSet_Never(nagURL) == FALSE

\* the check both transaction queries start with
NetworkNotSet(nagURL) == nagURL = Empty

BlockIDs == {Empty, <<"0", "7">>, <<"x">>}

TransactionIDs == {<<"0", "x", "t", "1">>}

TransactionAnswers ==
    {TransportError, PlainAnswer(500, <<"Internal Server Error">>),
     JSONAnswer(200, StatusResponse(<<"Executed">>, 100))}

DecimalDigits == {"0", "1", "2", "3", "4", "5", "6", "7", "8", "9"}

\* strconv.ParseInt(s, 10, 64) succeeds (for the blocks of the model, which
\* fit into 64 bits)
IsDecimal(s) ==
    LET digits == IF Len(s) > 0 /\ s[1] \in {"+", "-"} THEN Tail(s) ELSE s
    IN  Len(digits) > 0 /\ \A i \in 1..Len(digits) : digits[i] \in DecimalDigits

DigitValue(c) == CHOOSE d \in 0..9 : Digit(d) = c

RECURSIVE ParseNat(_)
ParseNat(digits) ==
    IF digits = Empty THEN 0
    ELSE 10 * ParseNat(SubSeq(digits, 1, Len(digits) - 1))
            + DigitValue(digits[Len(digits)])

\* the value strconv.ParseInt yields for a string IsDecimal holds of
ParseInt(s) ==
    CASE s[1] = "-" -> 0 - ParseNat(Tail(s))
      [] s[1] = "+" -> ParseNat(Tail(s))
      [] OTHER -> ParseNat(s)

\* the request getTransactionByID posts
TransactionRequest(transactionID, startBlock, endBlock) ==
    [url |-> NAGURL \o <<"Circular_GetTransactionbyID_">> \o NetworkNode,
     body |-> [Blockchain |-> HexFix(Blockchain), ID |-> HexFix(transactionID),
               Start |-> Sprintf_d(startBlock), End |-> Sprintf_d(endBlock),
               Version |-> LibVersion]]

\* getTransactionByID: the error it returns and the requests it has sent,
\* given what http.Post comes back with
getTransactionByID(transactionID, startBlock, endBlock, answer) ==
    IF NetworkNotSet(NAGURL)
    THEN [err |-> <<"network is not set">>, sent |-> << >>, answer |-> NoAnswer]
    ELSE [err |-> QueryError(answer),
          sent |-> Posted(NAGURL, TransactionRequest(transactionID, startBlock,
                                                     endBlock)),
          answer |-> answer]

GetTransaction(blockID, transactionID, answer) ==
    LET call(err, sent, reply) ==
            [Call("GetTransaction", err, sent, reply) EXCEPT !.arg = blockID]
        result == getTransactionByID(transactionID, ParseInt(blockID),
                                     ParseInt(blockID), answer)
    IN  /\ IF blockID = Empty
           THEN ReturnedFrom(call(<<"blockID cannot be empty">>, << >>, NoAnswer))
           ELSE IF ~IsDecimal(blockID)
           THEN ReturnedFrom(call(<<"invalid blockID">>, << >>, NoAnswer))
           ELSE /\ answer \in AnswersFor(NAGURL, TransactionAnswers)
                /\ ReturnedFrom(call(result.err, result.sent, result.answer))
        /\ UNCHANGED <<account, base, accepted, closedSince>>

\* Finalized, had it not compared Status with "Pending"
Finalized_AcceptsPending(data) ==
    /\ data.Result = 200
    /\ data.Response.type = "object"
    /\ data.Response.Status # NoMember

\* the three nested type assertions of the polling loop
Finalized(data) ==
    /\ data.Result = 200
    /\ data.Response.type = "object"
    /\ data.Response.Status # NoMember
    /\ data.Response.Status # <<"Pending">>

TimeoutError == <<"timeout exceeded while waiting for transaction outcome">>

\* PollStep, had it returned the Status alone, as the package-level
\* GetTransactionOutcome does
PollStep_StatusOnly(answer) ==
    IF QueryError(answer) # NoError
    THEN [return |-> FALSE, err |-> NoError, response |-> NoResponse]
    ELSE IF Finalized(answer)
    THEN [return |-> TRUE, err |-> NoError,
          response |-> StringResponse(answer.Response.Status)]
    ELSE [return |-> FALSE, err |-> NoError, response |-> NoResponse]

\* PollStep, had it returned the error of a failed query
PollStep_FailsOnError(answer) ==
    IF QueryError(answer) # NoError
    THEN [return |-> TRUE, err |-> QueryError(answer), response |-> NoResponse]
    ELSE IF Finalized(answer)
    THEN [return |-> TRUE, err |-> NoError, response |-> answer.Response]
    ELSE [return |-> FALSE, err |-> NoError, response |-> NoResponse]

\* one pass of the body of case <-ticker.C, given what http.Post came back with
PollStep(answer) ==
    IF QueryError(answer) # NoError
    THEN [return |-> FALSE, err |-> NoError, response |-> NoResponse]
    ELSE IF Finalized(answer)
    THEN [return |-> TRUE, err |-> NoError, response |-> answer.Response]
    ELSE [return |-> FALSE, err |-> NoError, response |-> NoResponse]

MaxClock == MaxTimeout + ClockSlack

\* GetTransactionOutcome returns; its queries are counted in polls
PollReturns(err, response, answer) ==
    /\ pc' = "idle"
    /\ outcome' = Outcome(err, response)
    /\ lastOp' = Call("GetTransactionOutcome", err, << >>, answer)
    /\ opParity' = 1 - opParity

\* TickDue, had the ticker fired one second early
TickDue_Early(elapsed, interval) == (elapsed + 1) % interval = 0

\* time.NewTicker(d) puts a tick into ticker.C every d, the first one d
\* after its creation
TickDue(elapsed, interval) == elapsed % interval = 0

\* the call, up to the first select
GetTransactionOutcome(timeoutSec, intervalSec) ==
    /\ pc = "idle"
    /\ polls' = NoPolls
    /\ now' = 0
    /\ tickReady' = FALSE
    /\ cancelRequested' = FALSE
    /\ IF NetworkNotSet(NAGURL)
       THEN /\ PollReturns(<<"network is not set">>, NoResponse, NoAnswer)
            /\ UNCHANGED <<timeout, period>>
       ELSE /\ timeout' = timeoutSec
            /\ period' = intervalSec
            /\ outcome' = NotReturned
            /\ pc' = IF intervalSec <= 0 THEN "panic" ELSE "select"
            /\ UNCHANGED <<lastOp, opParity>>
    /\ UNCHANGED <<account, base, accepted, closedSince, certificate, signed, nonceOf,
                   inFlight>>

\* a second passes while the poller waits in select or for the gateway
Advance ==
    /\ pc \in {"select", "post"}
    /\ now < MaxClock
    /\ now' = now + 1
    /\ tickReady' = (tickReady \/ TickDue(now + 1, period))
    /\ UNCHANGED <<account, history, pc, timeout, period, polls, outcome,
                   cancelRequested, certificate, signed, nonceOf,
                   inFlight>>

\* case <-ctx.Done()
SelectTimeout ==
    /\ pc = "select"
    /\ now >= timeout
    /\ PollReturns(TimeoutError, NoResponse, polls.last)
    /\ UNCHANGED <<account, base, accepted, closedSince, now, timeout, period,
                   tickReady, polls, cancelRequested, certificate, signed, nonceOf,
                   inFlight>>

\* SelectTick, had it kept the interval of the call in the session
SelectTick_StoresInterval ==
    /\ pc = "select"
    /\ tickReady
    /\ tickReady' = FALSE
    /\ pc' = "post"
    /\ polls' = [polls EXCEPT !.n = @ + 1, !.at = now]
    /\ IntervalSec' = period
    /\ UNCHANGED <<Address, PublicKey, NAGURL, NetworkNode, Blockchain, LatestTxID,
                   Nonce, history, now, timeout, period, outcome, cancelRequested,
                   certificate, signed, nonceOf,
                   inFlight>>

\* case <-ticker.C, up to the http.Post of getTransactionByID
SelectTick ==
    /\ pc = "select"
    /\ tickReady
    /\ tickReady' = FALSE
    /\ pc' = "post"
    /\ polls' = [polls EXCEPT !.n = @ + 1, !.at = now]
    /\ UNCHANGED <<account, history, now, timeout, period, outcome,
                   cancelRequested, certificate, signed, nonceOf,
                   inFlight>>

\* http.Post comes back and the loop body runs to its end
PollAnswer(answer) ==
    /\ pc = "post"
    /\ answer \in AnswersFor(NAGURL, PollAnswers)
    /\ polls' = [polls EXCEPT
                    !.last = answer,
                    !.allPending = @ /\ QueryError(answer) = NoError
                                     /\ answer.Result = 200
                                     /\ answer.Response.Status = <<"Pending">>,
                    !.allFailed = @ /\ QueryError(answer) # NoError]
    /\ IF PollStep(answer).return
       THEN PollReturns(PollStep(answer).err, PollStep(answer).response, answer)
       ELSE /\ pc' = "select"
            /\ UNCHANGED <<lastOp, opParity, outcome>>
    /\ UNCHANGED <<account, base, accepted, closedSince, now, timeout, period,
                   tickReady, cancelRequested, certificate, signed, nonceOf,
                   inFlight>>

\* the caller of a running GetTransactionOutcome decides that it should
\* stop; the call takes (txID, timeoutSec, intervalSec) and builds its context
\* from context.Background(), so nothing carries that decision to the loop
CallerCancels ==
    /\ pc \in {"select", "post"}
    /\ ~cancelRequested
    /\ cancelRequested' = TRUE
    /\ UNCHANGED <<account, history, pc, now, timeout, period, tickReady, polls,
                   outcome, certificate, signed, nonceOf,
                   inFlight>>

\* ---- signData, called by itself ------------------------------------------
Messages == {Empty, <<"m">>}

SignData(message, privateKeyHex) ==
    LET r == signData(Address, message, privateKeyHex)
    IN  /\ pc = "idle"
        /\ signed' = [message |-> message, key |-> privateKeyHex,
                      result |-> Result(r.signature, r.err)]
        /\ lastOp' = [Call("signData", r.err, << >>, NoAnswer)
                         EXCEPT !.arg = privateKeyHex,
                                !.repeated = /\ signed # NoSignature
                                             /\ signed.message = message
                                             /\ signed.key = privateKeyHex]
        /\ opParity' = 1 - opParity
        /\ UNCHANGED <<account, base, accepted, closedSince, poller, certificate,
                       nonceOf, inFlight>>

\* ---- CCertificate ---------------------------------------------------------
DataBytes == {"0", "x", "NUL", "C3", "A9"}

\* the strings of at most MaxData bytes
DataInputs == UNION {[1..n -> DataBytes] : n \in 0..MaxData}

\* values of the Data field that SetData does not produce
RawData == {<<"1", "2", "3">>, <<"z", "z">>, <<"0", "x", "6", "4">>}

\* a call on the certificate returns
CertificateReturned(op, err) ==
    /\ lastOp' = Call(op, err, << >>, NoAnswer)
    /\ opParity' = 1 - opParity
    /\ UNCHANGED <<account, base, accepted, closedSince, poller, signed, nonceOf,
                   inFlight>>

SetData(data) ==
    /\ Data' = StringToHex(data)
    /\ plain' = data
    /\ CertificateReturned("SetData", NoError)
    /\ UNCHANGED got

\* the Data field is exported: a certificate literal or a decoded JSON sets it
AssignData(hexStr) ==
    /\ Data' = hexStr
    /\ plain' = Unset
    /\ CertificateReturned("AssignData", NoError)
    /\ UNCHANGED got

GetData ==
    LET data == HexToString(Data)
    IN  /\ got' = IF data.err # NoError
                  THEN Result(Empty, <<"failed to convert hex to string: ">> \o data.err)
                  ELSE Result(data.text, NoError)
        /\ CertificateReturned("GetData", got'.err)
        /\ UNCHANGED <<Data, plain>>

\* ---- SubmitCertificate and UpdateAccount, called without waiting ----------
\* The methods take no lock and CEPAccount has none: the steps of two calls
\* interleave at every read and write of a field.  A read or a write of the
\* int64 Nonce is one step; a.Nonce++ is a read followed by a write.
Operations == {"SubmitCertificate", "UpdateAccount"}

\* the other callers are not inside a method
OthersOutside(c) ==
    \A d \in Callers \ {c} : inFlight[d].pc \in {"idle", "called", "done"}

\* a step of a call in flight leaves alone what it does not name
InFlightStep(c, after) ==
    /\ inFlight' = [inFlight EXCEPT ![c] = after]
    /\ UNCHANGED <<Address, PublicKey, NAGURL, NetworkNode, Blockchain,
                   IntervalSec, poller, certificate, signed, nonceOf>>

\* the call of caller c returns
InFlightReturns(c, after) ==
    /\ InFlightStep(c, [after EXCEPT !.pc = "done"])
    /\ lastOp' = [Call(after.op, after.err, after.sent, after.answer)
                     EXCEPT !.arg = after.key]
    /\ opParity' = 1 - opParity

\* a caller calls op; each caller makes one call
CallerCalls(c, op, privateKeyHex) ==
    /\ inFlight[c].pc = "idle"
    /\ pc = "idle"
    /\ Nonce < MaxNonce
    /\ InFlightStep(c, [NotCalled EXCEPT !.op = op, !.pc = "called",
                                         !.key = privateKeyHex])
    /\ UNCHANGED <<LatestTxID, Nonce, history>>

\* SubmitEnters, had the method held a mutex of the session
SubmitEnters_Locked(c, pdata, timestamp) ==
    LET call == inFlight[c]
        id == TransactionID(Blockchain, Address, Payload(pdata), Nonce, timestamp)
        signature == signData(Address, id, call.key)
    IN  /\ call.op = "SubmitCertificate"
        /\ call.pc = "called"
        /\ OthersOutside(c)
        /\ IF AccountNotOpen(Address)
           THEN InFlightReturns(c, [call EXCEPT !.err = <<"account is not open">>])
           ELSE IF signature.err # NoError
           THEN InFlightReturns(c, [call EXCEPT !.err = <<"failed to sign data: ">>
                                                         \o signature.err])
           ELSE /\ InFlightStep(c, [call EXCEPT !.pc = "signed", !.id = id,
                                                !.signature = signature.signature])
                /\ UNCHANGED <<lastOp, opParity>>
        /\ UNCHANGED <<LatestTxID, Nonce, base, accepted, closedSince>>

\* SubmitCertificate up to the signature: Nonce is read for strToHash
SubmitEnters(c, pdata, timestamp) ==
    LET call == inFlight[c]
        id == TransactionID(Blockchain, Address, Payload(pdata), Nonce, timestamp)
        signature == signData(Address, id, call.key)
    IN  /\ call.op = "SubmitCertificate"
        /\ call.pc = "called"
        /\ IF AccountNotOpen(Address)
           THEN InFlightReturns(c, [call EXCEPT !.err = <<"account is not open">>])
           ELSE IF signature.err # NoError
           THEN InFlightReturns(c, [call EXCEPT !.err = <<"failed to sign data: ">>
                                                         \o signature.err])
           ELSE /\ InFlightStep(c, [call EXCEPT !.pc = "signed", !.id = id,
                                                !.signature = signature.signature])
                /\ UNCHANGED <<lastOp, opParity>>
        /\ UNCHANGED <<LatestTxID, Nonce, base, accepted, closedSince>>

\* from requestData, for which Nonce is read again, to the decoded answer
SubmitPosts(c, pdata, timestamp, answer) ==
    LET call == inFlight[c]
        requestData == RequestData(call.id, Blockchain, Address, Payload(pdata),
                                   Nonce, timestamp, call.signature)
        request == [url |-> NAGURL \o <<"Circular_AddTransaction_">> \o NetworkNode,
                    body |-> requestData]
        after == [call EXCEPT !.sent = Posted(NAGURL, request), !.answer = answer,
                              !.err = SubmitError(answer)]
    IN  /\ call.op = "SubmitCertificate"
        /\ call.pc = "signed"
        /\ answer \in AnswersFor(NAGURL, SubmitAnswers)
        /\ IF SubmitError(answer) # NoError
           THEN InFlightReturns(c, after)
           ELSE /\ InFlightStep(c, [after EXCEPT !.pc = "accepted"])
                /\ UNCHANGED <<lastOp, opParity>>
        /\ UNCHANGED <<LatestTxID, Nonce, base, accepted, closedSince>>

\* a.LatestTxID = id and the read of a.Nonce++
SubmitLoads(c) ==
    LET call == inFlight[c]
    IN  /\ call.op = "SubmitCertificate"
        /\ call.pc = "accepted"
        /\ LatestTxID' = call.id
        /\ InFlightStep(c, [call EXCEPT !.pc = "loaded", !.value = Nonce])
        /\ UNCHANGED <<Nonce, history>>

\* the write of a.Nonce++, and the return
SubmitStores(c) ==
    LET call == inFlight[c]
    IN  /\ call.op = "SubmitCertificate"
        /\ call.pc = "loaded"
        /\ Nonce' = call.value + 1
        /\ accepted' = accepted + 1
        /\ InFlightReturns(c, call)
        /\ UNCHANGED <<LatestTxID, base, closedSince>>

\* UpdateAccount up to the decoded answer
UpdatePosts(c, answer) ==
    LET call == inFlight[c]
        request == [Blockchain |-> HexFix(Blockchain), Address |-> HexFix(Address),
                    Version |-> LibVersion,
                    url |-> NAGURL \o <<"Circular_GetWalletNonce_">> \o NetworkNode]
        after == [call EXCEPT !.sent = Posted(NAGURL, request), !.answer = answer,
                              !.err = UpdateAccountError(answer)]
    IN  /\ call.op = "UpdateAccount"
        /\ call.pc = "called"
        /\ IF AccountNotOpen(Address)
           THEN InFlightReturns(c, [call EXCEPT !.err = <<"account is not open">>])
           ELSE /\ answer \in AnswersFor(NAGURL, NonceAnswers)
                /\ IF UpdateAccountError(answer) # NoError
                   THEN InFlightReturns(c, after)
                   ELSE /\ InFlightStep(c, [after EXCEPT !.pc = "decoded",
                                                         !.value = UpdatedNonce(answer)])
                        /\ UNCHANGED <<lastOp, opParity>>
        /\ UNCHANGED <<LatestTxID, Nonce, base, accepted, closedSince>>

\* a.Nonce = int64(responseData.Response.Nonce) + 1, and the return
UpdateStores(c) ==
    LET call == inFlight[c]
    IN  /\ call.op = "UpdateAccount"
        /\ call.pc = "decoded"
        /\ Nonce' = call.value
        /\ base' = call.value
        /\ accepted' = 0
        /\ closedSince' = FALSE
        /\ InFlightReturns(c, call)
        /\ UNCHANGED LatestTxID

\* the next step of the call of caller c
InFlightNext(c) ==
    \/ \E pdata \in PData, timestamp \in Timestamps : SubmitEnters(c, pdata, timestamp)
    \/ \E pdata \in PData, timestamp \in Timestamps, answer \in SubmitAnswers :
            SubmitPosts(c, pdata, timestamp, answer)
    \/ SubmitLoads(c)
    \/ SubmitStores(c)
    \/ \E answer \in NonceAnswers : UpdatePosts(c, answer)
    \/ UpdateStores(c)

\* ------------------------------------------------------------------------
\* Specification
\* ------------------------------------------------------------------------
Next ==
    \/ \E address \in Addresses : Open(address)
    \/ Close
    \/ \E chain \in Chains : SetBlockchain(chain)
    \/ \E network \in Networks, answer \in DiscoveryAnswers :
            SetNetwork(network, answer)
    \/ \E answer \in NonceAnswers : UpdateAccount(answer)
    \/ \E pdata \in PData, key \in Keys, timestamp \in Timestamps,
          answer \in SubmitAnswers :
            SubmitCertificate(pdata, key, timestamp, answer)
    \/ \E blockID \in BlockIDs, transactionID \in TransactionIDs,
          answer \in TransactionAnswers :
            GetTransaction(blockID, transactionID, answer)

Spec == Init /\ [][Next]_vars

\* the session of a caller that only sets the network, polls and closes
PollNext ==
    \/ Close
    \/ \E network \in Networks, answer \in DiscoveryAnswers :
            SetNetwork(network, answer)
    \/ \E timeoutSec \in 0..MaxTimeout, intervalSec \in 0..MaxInterval :
            GetTransactionOutcome(timeoutSec, intervalSec)
    \/ Advance
    \/ SelectTimeout
    \/ SelectTick
    \/ \E answer \in PollAnswers : PollAnswer(answer)
    \/ CallerCancels

PollSpec == Init /\ [][PollNext]_vars

\* a session on which signData is called between other calls
SignNext ==
    \/ \E address \in Addresses : Open(address)
    \/ Close
    \/ \E answer \in NonceAnswers : UpdateAccount(answer)
    \/ \E message \in Messages, key \in Keys : SignData(message, key)

SignSpec == Init /\ [][SignNext]_vars

\* a session that changes its address and its chain between gateway calls
ScopeNext ==
    \/ \E address \in Addresses : Open(address)
    \/ Close
    \/ \E chain \in Chains : SetBlockchain(chain)
    \/ \E answer \in NonceAnswers : UpdateAccount(answer)
    \/ \E pdata \in PData, key \in Keys, timestamp \in Timestamps,
          answer \in SubmitAnswers :
            SubmitCertificate(pdata, key, timestamp, answer)

ScopeSpec == ScopeInit /\ [][ScopeNext]_vars

\* a session that two callers use without waiting for one another
ConcurrentNext ==
    \/ \E address \in Addresses : Open(address)
    \/ \E c \in Callers, op \in Operations, key \in Keys : CallerCalls(c, op, key)
    \/ \E c \in Callers : InFlightNext(c)

ConcurrentSpec == Init /\ [][ConcurrentNext]_vars

\* a certificate by itself
CertificateNext ==
    \/ \E data \in DataInputs : SetData(data)
    \/ \E hexStr \in RawData : AssignData(hexStr)
    \/ GetData

CertificateSpec == Init /\ [][CertificateNext]_vars

\* the runtime lets time pass and runs a select one of whose cases is ready,
\* picking among ready cases at random; nothing makes the gateway answer
FairPollSpec ==
    /\ PollSpec
    /\ WF_vars(Advance)
    /\ WF_vars(SelectTimeout \/ SelectTick)
    /\ SF_vars(SelectTimeout)

\* ------------------------------------------------------------------------
\* Properties of the session operations (checked under Spec)
\* ------------------------------------------------------------------------
\* the step is a call of op that has returned
Called(op) == opParity' # opParity /\ lastOp'.op = op

\* the gateway answered HTTP 200 with a JSON body whose Result is 200
AnsweredOK(answer) ==
    answer.kind = "http" /\ answer.status = 200 /\ answer.json /\ answer.Result = 200

\* C1: a SubmitCertificate that is answered HTTP 200 with Result 200 returns
\* no error, leaves Nonce one above its value at call time and leaves in
\* LatestTxID the ID field of the envelope it sent, not the TxID of the
\* response body.
C1_SubmitSuccess ==
    [][(Called("SubmitCertificate") /\ AnsweredOK(lastOp'.answer))
          => /\ lastOp'.err = NoError
             /\ Nonce' = Nonce + 1
             /\ Len(lastOp'.sent) = 1
             /\ LatestTxID' = lastOp'.sent[1].body.ID
             /\ LatestTxID' # lastOp'.answer.Response.TxID]_vars

C1_Witness ==
    /\ lastOp.op = "SubmitCertificate"
    /\ AnsweredOK(lastOp.answer)
    /\ lastOp.answer.Response.TxID = <<"0x12345">>
    /\ Nonce = 2
    /\ LatestTxID = lastOp.sent[1].body.ID

\* C2: a SubmitCertificate that returns an error leaves Nonce and LatestTxID
\* as they were before the call.
C2_SubmitErrorKeepsState ==
    [][(Called("SubmitCertificate") /\ lastOp'.err # NoError)
          => (Nonce' = Nonce /\ LatestTxID' = LatestTxID)]_vars

C2_Witness ==
    /\ lastOp.op = "SubmitCertificate"
    /\ lastOp.err # NoError
    /\ lastOp.answer.json
    /\ lastOp.answer.Result # 200
    /\ Nonce > 0
    /\ LatestTxID # Empty

\* every envelope sent carries the decimal value Nonce had at the call
EnvelopeCarriesNonce ==
    [][(Called("SubmitCertificate") /\ Len(lastOp'.sent) = 1)
          => lastOp'.sent[1].body.Nonce = Sprintf_d(Nonce)]_vars

\* C3 as stated: after a successful UpdateAccount that reported r, Nonce is
\* always r + 1 plus the number of submissions accepted since, and every
\* envelope carries the Nonce of the moment of its call.
C3_Original ==
    /\ [](base # Absent => Nonce = base + accepted)
    /\ EnvelopeCarriesNonce

\* C3: as long as Close has not been called since the last successful
\* UpdateAccount, which reported r, Nonce is r + 1 plus the number of
\* submissions accepted since, and every envelope carries the Nonce of the
\* moment of its call.
C3_NonceTracksGateway ==
    /\ []((base # Absent /\ ~closedSince) => Nonce = base + accepted)
    /\ EnvelopeCarriesNonce

C3_Witness ==
    /\ lastOp.op = "SubmitCertificate"
    /\ lastOp.err = NoError
    /\ ~closedSince
    /\ base = 2
    /\ accepted = 1
    /\ lastOp.sent[1].body.Nonce = <<"2">>
    /\ Nonce = 3

C5_UpdateAccount ==
    [][(Called("UpdateAccount") /\ Address # Empty /\ lastOp'.answer.kind = "http")
          => LET answer == lastOp'.answer
             IN  /\ (AnsweredOK(answer) /\ answer.Response.Nonce >= 0)
                        => (lastOp'.err = NoError
                              /\ Nonce' = answer.Response.Nonce + 1)
                 /\ (\/ answer.status # 200
                     \/ ~answer.json
                     \/ answer.Response.Nonce = WrongType
                     \/ answer.Result # 200)
                        => (lastOp'.err # NoError /\ Nonce' = Nonce)]_vars

C5_Witness ==
    /\ lastOp.op = "UpdateAccount"
    /\ lastOp.err # NoError
    /\ lastOp.answer.Result = 400
    /\ ~closedSince
    /\ base = 2
    /\ Nonce = 2

\* the step is a call of one of the operations that talk to the gateway
GatewayCalled(ops) == opParity' # opParity /\ lastOp'.op \in ops

\* the call failed before anything was sent and left the session as it was
FailedFast == lastOp'.err # NoError /\ lastOp'.sent = << >> /\ UNCHANGED account

\* C13 as stated: UpdateAccount, SubmitCertificate and the transaction
\* queries fail, send nothing and change no field when they are called while
\* Address is empty or NAGURL is empty.
C13_Original ==
    [][(/\ GatewayCalled({"UpdateAccount", "SubmitCertificate", "GetTransaction"})
        /\ (Address = Empty \/ NAGURL = Empty))
          => FailedFast]_vars

\* C13: UpdateAccount and SubmitCertificate fail, send nothing and change
\* no field when they are called while Address is empty or NAGURL is empty;
\* the transaction queries do so when they are called while NAGURL is empty.
C13_FailsFast ==
    [][(\/ /\ GatewayCalled({"UpdateAccount", "SubmitCertificate"})
           /\ (Address = Empty \/ NAGURL = Empty)
        \/ /\ GatewayCalled({"GetTransaction"})
           /\ NAGURL = Empty)
          => FailedFast]_vars

C13_Witness ==
    /\ lastOp.op = "UpdateAccount"
    /\ Address # Empty
    /\ NAGURL = Empty
    /\ lastOp.err # NoError
    /\ lastOp.sent = << >>

\* C14: a SubmitCertificate called while NAGURL is empty returns the error
\* "network is not set", one called while NAGURL is set and Address is empty
\* returns the error "account is not open", and both leave Nonce and
\* LatestTxID as they were.
C14_DistinctPreconditionErrors ==
    [][Called("SubmitCertificate")
          => /\ NAGURL = Empty
                  => /\ lastOp'.err = <<"network is not set">>
                     /\ UNCHANGED <<Nonce, LatestTxID>>
             /\ (NAGURL # Empty /\ Address = Empty)
                  => /\ lastOp'.err = <<"account is not open">>
                     /\ UNCHANGED <<Nonce, LatestTxID>>]_vars

\* the url a discovery body declares together with the status "success";
\* Empty when the body is none such
DeclaredURL(answer) ==
    IF /\ answer.kind = "http"
       /\ Len(answer.text) > 2
       /\ answer.text = DiscoveryBody(SubSeq(answer.text, 2, Len(answer.text) - 1))
    THEN SubSeq(answer.text, 2, Len(answer.text) - 1)
    ELSE Empty

\* the discovery endpoint answered HTTP 200, status "success" and a url
DiscoverySucceeded(answer) ==
    answer.kind = "http" /\ answer.status = 200 /\ DeclaredURL(answer) # Empty

\* C16: a SetNetwork whose discovery succeeds returns no error and leaves
\* the resolved URL in NAGURL; one whose discovery fails (by its status, by a
\* malformed body or by a body that declares failure) returns an error and
\* leaves NAGURL as it was.
C16_SetNetwork ==
    [][Called("SetNetwork")
          => IF DiscoverySucceeded(lastOp'.answer)
             THEN lastOp'.err = NoError /\ NAGURL' = DeclaredURL(lastOp'.answer)
             ELSE lastOp'.err # NoError /\ NAGURL' = NAGURL]_vars

\* C17: for the answer of the discovery endpoint that the last SetNetwork
\* got, GetNAG yields a URL exactly when the answer is HTTP 200 with status
\* "success" and a url, and then that url; otherwise it yields an error and
\* the empty string.
C17_GetNAG ==
    lastOp.op = "SetNetwork"
        => LET nag == GetNAG(NetworkNode, lastOp.answer)
           IN  IF DiscoverySucceeded(lastOp.answer)
               THEN nag.err = NoError /\ nag.url = DeclaredURL(lastOp.answer)
               ELSE nag.err # NoError /\ nag.url = Empty

\* C18: an Open of the empty address returns the error "invalid address
\* format" and leaves Address as it was; an Open of another address returns
\* no error and leaves that address in Address, whatever was there before.
C18_Open ==
    [][Called("Open")
          => IF lastOp'.arg = Empty
             THEN lastOp'.err = <<"invalid address format">> /\ Address' = Address
             ELSE lastOp'.err = NoError /\ Address' = lastOp'.arg]_vars

C18_Witness ==
    /\ lastOp.op = "Open"
    /\ lastOp.err = NoError
    /\ lastOp.arg = <<"b", "2">>
    /\ Address = <<"b", "2">>
    /\ LatestTxID # Empty
    /\ ~closedSince

\* C19: after a Close, Address, PublicKey and LatestTxID are empty, Nonce
\* is 0, NAGURL is reset, Blockchain is the default chain and IntervalSec is
\* the default interval of 2 seconds.
C19_CloseResets ==
    lastOp.op = "Close"
        => /\ Address = Empty
           /\ PublicKey = Empty
           /\ LatestTxID = Empty
           /\ Nonce = 0
           /\ NAGURL \in {Empty, DefaultNAG}
           /\ Blockchain = DefaultChain
           /\ IntervalSec = DefaultIntervalSec

\* C20: Close does not fail, whether the session is open, closed or was
\* never opened, and a Close that follows a Close changes no field.
C20_CloseIdempotent ==
    [][Called("Close")
          => /\ lastOp'.err = NoError
             /\ lastOp.op = "Close" => UNCHANGED account]_vars

C20_Witness ==
    /\ lastOp.op = "Close"
    /\ lastOp.repeated
    /\ lastOp.err = NoError
    /\ base = 2
    /\ Address = Empty
    /\ Nonce = 0

C24_SubmitNeverRetries ==
    [][Called("SubmitCertificate")
          => LET answer == lastOp'.answer
             IN  /\ Len(lastOp'.sent) <= 1
                 /\ answer.kind = "transport"
                      => lastOp'.err = <<"failed to submit certificate">>
                 /\ (answer.kind = "http" /\ answer.status # 200)
                      => /\ Len(lastOp'.sent) = 1
                         /\ lastOp'.err = <<"network returned an error - status: ">>
                                             \o Sprintf_d(answer.status)
                                             \o answer.text]_vars

C24_Witness ==
    /\ lastOp.op = "SubmitCertificate"
    /\ lastOp.answer.kind = "http"
    /\ lastOp.answer.status = 500
    /\ Len(lastOp.sent) = 1
    /\ lastOp.sent[1].body.Nonce = <<"1">>
    /\ Nonce = 1

\* the string does not begin with 0x
NoPrefix(word) == ~(Len(word) >= 2 /\ word[1] = "0" /\ word[2] \in {"x", "X"})

\* the hex of the JSON {"Action":"CP_CERTIFICATE","Data":"64"}, 64 being the
\* hex of the data "d"
PayloadOfD ==
    <<"7b22416374696f6e223a2243505f4345525449464943415445222c2244617461223a22",
      "3", "6", "3", "4", "227d">>

\* C25: the ID of every envelope SubmitCertificate sends is the SHA-256 of
\* Blockchain, From, To, Payload, Nonce and Timestamp of that envelope, in
\* this order; Blockchain and From are the session's Blockchain and Address
\* without 0x, To equals From, Nonce is the decimal Nonce of the session and
\* Payload is the hex of the JSON that holds the hex of the data.
C25_TransactionID ==
    [][(Called("SubmitCertificate") /\ Len(lastOp'.sent) = 1)
          => LET body == lastOp'.sent[1].body
             IN  /\ body.Blockchain = HexFix(Blockchain)
                 /\ NoPrefix(body.Blockchain)
                 /\ body.From = HexFix(Address)
                 /\ NoPrefix(body.From)
                 /\ body.To = body.From
                 /\ body.Nonce = Sprintf_d(Nonce)
                 /\ body.Timestamp \in Timestamps
                 /\ body.Payload = PayloadOfD
                 /\ body.ID = <<"sha256("
                                 \o ToString(body.Blockchain \o body.From \o body.To
                                                \o body.Payload \o body.Nonce
                                                \o body.Timestamp)
                                 \o ")">>]_vars

C25_Witness ==
    /\ lastOp.op = "SubmitCertificate"
    /\ Len(lastOp.sent) = 1
    /\ lastOp.sent[1].body.Blockchain = <<"c", "1">>
    /\ lastOp.sent[1].body.From = <<"a", "1">>
    /\ lastOp.sent[1].body.Nonce = <<"1">>

\* C26: the Signature of every envelope SubmitCertificate sends is the
\* signature, under the key of the call, of the SHA-256 of the characters of
\* the envelope's ID.
C26_SignsTransactionID ==
    [][(Called("SubmitCertificate") /\ Len(lastOp'.sent) = 1)
          => LET body == lastOp'.sent[1].body
             IN  body.Signature =
                     <<"ecdsa(" \o ToString(DecodeHex(HexFix(lastOp'.arg))) \o ","
                                \o "sha256(" \o ToString(body.ID) \o ")" \o ")">>]_vars

C26_Witness ==
    /\ lastOp.op = "SubmitCertificate"
    /\ lastOp.err = NoError
    /\ lastOp.arg = <<"0", "x", "1", "F">>
    /\ Len(lastOp.sent) = 1
    /\ lastOp.sent[1].body.Signature # Empty
    /\ LatestTxID = lastOp.sent[1].body.ID

\* the order of the group of secp256k1, in hex
SecpOrder ==
    <<
      "f", "f", "f", "f", "f", "f", "f", "f", "f", "f", "f", "f", "f", "f", "f", "f",
      "f", "f", "f", "f", "f", "f", "f", "f", "f", "f", "f", "f", "f", "f", "f", "e",
      "b", "a", "a", "e", "d", "c", "e", "6", "a", "f", "4", "8", "a", "0", "3", "b",
      "b", "f", "d", "2", "5", "e", "8", "c", "d", "0", "3", "6", "4", "1", "4", "1" >>

HexValue(c) ==
    CHOOSE v \in 0..15 :
        <<"0", "1", "2", "3", "4", "5", "6", "7", "8", "9",
          "a", "b", "c", "d", "e", "f">>[v + 1] = LowerHexDigit(c)

\* of two hex strings of one length, the first is the smaller number
RECURSIVE HexBelow(_, _)
HexBelow(x, y) ==
    IF x = Empty THEN FALSE
    ELSE IF HexValue(Head(x)) # HexValue(Head(y))
    THEN HexValue(Head(x)) < HexValue(Head(y))
    ELSE HexBelow(Tail(x), Tail(y))

\* the key is the hex, with or without 0x, of 32 bytes that are a number
\* from 1 to the order of the group less one
ParsesToScalar(privateKeyHex) ==
    LET digits == HexFix(privateKeyHex)
    IN  /\ IsHexString(digits)
        /\ Len(digits) = 64
        /\ \E i \in 1..64 : digits[i] # "0"
        /\ HexBelow(digits, SecpOrder)

\* C28: a SubmitCertificate on an open session whose key is not the hex of
\* a valid secp256k1 scalar returns the invalid-key error, sends nothing and
\* leaves Nonce and LatestTxID as they were.
C28_InvalidKeyRejected ==
    [][(/\ Called("SubmitCertificate")
        /\ Address # Empty
        /\ ~ParsesToScalar(lastOp'.arg))
          => /\ lastOp'.err = <<"failed to sign data: ", "invalid private key hex string">>
             /\ lastOp'.sent = << >>
             /\ UNCHANGED <<Nonce, LatestTxID>>]_vars

\* ------------------------------------------------------------------------
\* Properties of GetTransactionOutcome (checked under PollSpec)
\* ------------------------------------------------------------------------
\* GetTransactionOutcome has sent a query and the last query has been answered
Polled == polls.n > 0 /\ pc # "post"

PollReturned == pc = "idle" /\ outcome # NotReturned

TimedOut == Outcome(TimeoutError, NoResponse)

\* the query did not yield a body
QueryFailed(answer) ==
    answer.kind = "transport" \/ answer.status # 200 \/ ~answer.json

NotFoundSentinel == <<"Transaction Not Found">>

\* the body reports a final status
ReportsFinal(answer) ==
    /\ ~QueryFailed(answer)
    /\ answer.Result = 200
    /\ answer.Response.type = "object"
    /\ answer.Response.Status \notin {NoMember, <<"Pending">>, NotFoundSentinel}

\* C6: when every query was answered HTTP 200 with Result 200 and Status
\* "Pending", GetTransactionOutcome returns the timeout error and no response.
C6_AllPendingTimesOut ==
    (PollReturned /\ Polled /\ polls.allPending) => outcome = TimedOut

C6_Witness ==
    /\ PollReturned
    /\ polls.n = 2
    /\ polls.allPending
    /\ now >= timeout
    /\ outcome = TimedOut

\* C7: a poll answered with Result 200 and a Response object whose Status is
\* neither "Pending" nor not-found is the last one: GetTransactionOutcome
\* has returned that Response object, with no error, and queries no more.
C7_FinalPollReturns ==
    (Polled /\ ReportsFinal(polls.last))
        => (pc = "idle" /\ outcome = Outcome(NoError, polls.last.Response))

C7_Witness ==
    /\ PollReturned
    /\ polls.n = 2
    /\ now < timeout
    /\ polls.last = JSONAnswer(200, StatusResponse(<<"Rejected">>, 200))
    /\ outcome = Outcome(NoError, StatusResponse(<<"Rejected">>, 200))

\* C8: GetTransactionOutcome returns a response only for a poll that reports
\* a final status; after a poll that reports pending or not found, has no
\* status or has another Result than 200, it returns only by timing out.
C8_OnlyFinalStatusConfirms ==
    /\ (PollReturned /\ outcome.err = NoError)
          => (Polled /\ ReportsFinal(polls.last))
    /\ (PollReturned /\ Polled /\ ~QueryFailed(polls.last)
                     /\ ~ReportsFinal(polls.last))
          => outcome = TimedOut

\* C9: a query that fails does not make GetTransactionOutcome return: after
\* it the poller is back in its select, and once it has returned with a
\* failed query as its last one, or with failed queries only, it has
\* returned the timeout error; polling ends with the timeout error or with
\* the response of a query that did not fail, never with a query's error.
C9_FailedQueryKeepsPolling ==
    /\ (Polled /\ QueryFailed(polls.last))
          => (pc = "select" \/ (pc = "idle" /\ outcome = TimedOut))
    /\ (PollReturned /\ Polled /\ polls.allFailed) => outcome = TimedOut
    /\ (PollReturned /\ Polled)
          => (outcome = TimedOut \/ (outcome.err = NoError /\ ~QueryFailed(polls.last)))

C9_Witness ==
    /\ PollReturned
    /\ polls.n = 2
    /\ polls.allFailed
    /\ polls.last = PlainAnswer(500, <<"Internal Server Error">>)
    /\ outcome = TimedOut

\* C10: a GetTransactionOutcome that has started to poll returns in the end.
C10_PollingTerminates ==
    (pc \in {"select", "post"}) ~> (pc = "idle")

\* C11: once the caller of a polling GetTransactionOutcome has asked it to
\* stop, no further query is sent, and when the call returns it returns
\* neither a response nor the timeout error.
C11_CancelStopsPolling ==
    [][(cancelRequested /\ pc \in {"select", "post"})
          => /\ polls'.n = polls.n
             /\ pc' = "idle" => outcome'.err \notin {NoError, TimeoutError}]_vars

\* C12 as stated: the first query of a GetTransactionOutcome is sent no
\* sooner than one interval after the call, and every later query exactly one
\* interval after the query before it.
C12_Original ==
    [][polls'.n = polls.n + 1
          => IF polls.n = 0
             THEN now > 0 /\ now >= period
             ELSE now - polls.at = period]_vars

\* C12: the first query of a GetTransactionOutcome is sent no sooner than
\* one interval after the call, never on entry, and the k-th query no sooner
\* than k intervals after the call.
C12_QueriesFollowTicks ==
    polls.n > 0 => (period > 0 /\ polls.at >= polls.n * period)

C12_Witness ==
    /\ pc = "post"
    /\ period = 1
    /\ polls.n = 2
    /\ polls.at = 3

\* the step is a call of GetTransactionOutcome
PollCalled == pc = "idle" /\ (pc' # "idle" \/ Called("GetTransactionOutcome"))

\* C15: a GetTransactionOutcome called while NAGURL is empty returns within
\* the call, before any second has passed, with the error "network is not
\* set", no response and no query sent.
C15_NoNetworkReturnsAtOnce ==
    [][(PollCalled /\ NAGURL = Empty)
          => /\ pc' = "idle"
             /\ outcome' = Outcome(<<"network is not set">>, NoResponse)
             /\ now' = 0
             /\ polls'.n = 0
             /\ lastOp'.sent = << >>]_vars

C15_Witness ==
    /\ lastOp.op = "GetTransactionOutcome"
    /\ NAGURL = Empty
    /\ pc = "idle"
    /\ outcome = Outcome(<<"network is not set">>, NoResponse)
    /\ polls.n = 0
    /\ now = 0

\* C22: from its call to its return GetTransactionOutcome changes no field
\* of the session, whether it returns a response, the timeout error or the
\* error of a session without network.
C22_PollingKeepsSession ==
    [][(PollCalled \/ pc \in {"select", "post"}) => UNCHANGED account]_vars

C22_Witness ==
    /\ PollReturned
    /\ lastOp.op = "GetTransactionOutcome"
    /\ outcome.err = NoError
    /\ polls.n = 1
    /\ NAGURL = ResolvedNAG
    /\ NetworkNode = <<"testnet">>

\* ------------------------------------------------------------------------
\* Further properties of GetTransactionOutcome (checked under PollSpec)
\* ------------------------------------------------------------------------
\* C32: GetTransactionOutcome starts no query once timeoutSec seconds have
\* passed since the call, and a response it returns without error comes
\* from a query started before that.
C32_NoQueryAfterDeadline ==
    /\ [][polls'.n > polls.n => now < timeout]_vars
    /\ []((pc = "idle" /\ lastOp.op = "GetTransactionOutcome"
              /\ outcome # NotReturned /\ outcome.err = NoError)
            => polls.at < timeout)

\* C36: GetTransactionOutcome on a session with a network does not crash,
\* whatever timeoutSec >= 0 and intervalSec >= 0 it is given.
C36_NeverCrashes == pc # "panic"

\* ------------------------------------------------------------------------
\* Further properties of the session operations (checked under Spec)
\* ------------------------------------------------------------------------
\* C34: an UpdateAccount answered HTTP 200 with Result 200 and a Response
\* that has no Nonce member returns an error and leaves Nonce as it was.
C34_MissingNonceFails ==
    [][(/\ Called("UpdateAccount")
        /\ AnsweredOK(lastOp'.answer)
        /\ lastOp'.answer.Response.Nonce = Absent)
          => (lastOp'.err # NoError /\ Nonce' = Nonce)]_vars

\* the envelope the call before this step has sent, and the one this step's
\* call has sent
EnvelopeBefore == lastOp.sent[1].body

EnvelopeNow == lastOp'.sent[1].body

C38_Frame ==
    [][/\ (Called("Open") \/ Called("SetNetwork") \/ Called("SetBlockchain"))
            => (Nonce' = Nonce /\ LatestTxID' = LatestTxID)
       /\ Called("Open")
            => UNCHANGED <<PublicKey, NAGURL, NetworkNode, Blockchain, LatestTxID,
                           Nonce, IntervalSec>>
       /\ Called("UpdateAccount")
            => UNCHANGED <<Address, PublicKey, NAGURL, NetworkNode, Blockchain,
                           LatestTxID, IntervalSec>>]_vars

C38_Witness ==
    /\ lastOp.op = "SetBlockchain"
    /\ Blockchain = <<"c", "1">>
    /\ Nonce = 2
    /\ LatestTxID # Empty

\* ------------------------------------------------------------------------
\* The scope of the nonce (checked under ScopeSpec)
\* ------------------------------------------------------------------------
\* C33: an envelope sent by SubmitCertificate carries a Nonce that was
\* fetched or advanced under the Address and the Blockchain the session has
\* at the call, never one of an address or a chain it had before.
C33_NonceScoped ==
    [][(/\ Called("SubmitCertificate")
        /\ lastOp'.sent # << >>
        /\ nonceOf # NoScope)
          => nonceOf = <<Address, Blockchain>>]_vars

\* ------------------------------------------------------------------------
\* Calls that overlap (checked under ConcurrentSpec)
\* ------------------------------------------------------------------------
\* C31: the session does no locking: a SubmitCertificate or UpdateAccount
\* that has been called can take its next step at any moment, whatever the
\* call of the other caller is doing, also between that call's read and
\* write of Nonce.
C31_NoInternalLocking ==
    \A c \in Callers :
        inFlight[c].pc \notin {"idle", "done"} => ENABLED InFlightNext(c)

\* two submissions were accepted with the same nonce in their envelopes, and
\* Nonce has gone up by one
C31_Witness ==
    /\ \A c \in Callers :
          /\ inFlight[c].op = "SubmitCertificate"
          /\ inFlight[c].pc = "done"
          /\ inFlight[c].err = NoError
          /\ Len(inFlight[c].sent) = 1
          /\ inFlight[c].sent[1].body.Nonce = <<"0">>
    /\ Nonce = 1

NotOpenResult == Result(Empty, <<"account is not open">>)

C29_Original ==
    (lastOp.op = "GetData" /\ plain # Unset) => got = Result(plain, NoError)

\* hex.DecodeString accepts the string: hex digits, an even number of them
ValidHex(str) ==
    /\ Len(str) % 2 = 0
    /\ \A i \in 1..Len(str) :
          str[i] \in {"0", "1", "2", "3", "4", "5", "6", "7", "8", "9", "a", "b",
                      "c", "d", "e", "f", "A", "B", "C", "D", "E", "F"}

\* C30 as stated: a GetData on a certificate whose Data is not valid hex
\* returns an error and the empty string.
C30_Original ==
    (lastOp.op = "GetData" /\ ~ValidHex(Data))
        => (got.err # NoError /\ got.text = Empty)

\* C30: a GetData on a certificate whose Data, once a leading 0x or 0X is
\* taken off, is not valid hex returns an error and the empty string.
C30_BadHexFails ==
    (lastOp.op = "GetData" /\ ~ValidHex(HexFix(Data)))
        => (got.err # NoError /\ got.text = Empty)

C30_Witness ==
    /\ lastOp.op = "GetData"
    /\ Data = <<"1", "2", "3">>
    /\ got.err # NoError
    /\ got.text = Empty

====
